---- MODULE Spec2Model ----
(***************************************************************************)
(* heliotrope: decoding of Solr JSON responses (src/src/response.rs).      *)
(*                                                                         *)
(* The model follows SolrQueryResponse::from_json_str statement by         *)
(* statement, and the two derived-style decoders (SolrError and            *)
(* SolrUpdateResponse) as one step each.  The JSON text handed to the      *)
(* decoders is modelled as a source tree in which an object is the         *)
(* sequence of its (name, value) members as written; serialize::json       *)
(* turns it into a Json value whose objects are TreeMaps (unique keys,     *)
(* iterated in key order).                                                 *)
(*                                                                         *)
(* Integers keep their width.  A 64-bit magnitude is four 16-bit limbs     *)
(* <<l3, l2, l1, l0>> (most significant first); a u32 is <<l1, l0>>.       *)
(***************************************************************************)
EXTENDS Integers, Sequences, FiniteSets, TLC

\* Longest docs list of the document inputs.
MaxDocs == 2

\* Most members of one source document object.
MaxFields == 2

Limb == 2^16

---------------------------------------------------------------------------
(* 64-bit magnitudes *)

Mag(n) == <<0, 0, n \div Limb, n % Limb>>

\* 2^32 + 1: does not fit a u32.
MagBig == <<0, 1, 0, 1>>

\* 2^63: fits a u64, not an i64 (i64::MAX + 1).
Mag63 == <<32768, 0, 0, 0>>

\* 2^63 + 1
Mag63p == <<32768, 0, 0, 1>>

\* m <= 2^63
FitsNegI64(m) == m[1] < 32768 \/ m = Mag63

\* m <= i64::MAX
FitsI64(m) == m[1] < 32768

---------------------------------------------------------------------------
(* JSON source text, as a tree *)

SrcNum(neg, mag) == [t |-> "num", neg |-> neg, mag |-> mag]
SrcFlt(neg, whole, frac) == [t |-> "flt", neg |-> neg, whole |-> whole, frac |-> frac]
SrcStr(s) == [t |-> "str", s |-> s]
SrcBool(b) == [t |-> "bool", b |-> b]
SrcNull == [t |-> "null"]
SrcList(elems) == [t |-> "list", elems |-> elems]
SrcObj(pairs) == [t |-> "obj", pairs |-> pairs]
\* Text that is no JSON: the error the parser gives for it.
SrcBad(e) == [t |-> "bad", err |-> e]

---------------------------------------------------------------------------
(* serialize::json::Json *)

I64(neg, mag) == [t |-> "I64", neg |-> neg /\ mag # <<0, 0, 0, 0>>, mag |-> mag]
U64(mag) == [t |-> "U64", mag |-> mag]
F64(neg, whole, frac) == [t |-> "F64", neg |-> neg, whole |-> whole, frac |-> frac]
String(s) == [t |-> "String", s |-> s]
Boolean(b) == [t |-> "Boolean", b |-> b]
List(elems) == [t |-> "List", elems |-> elems]
Object(m) == [t |-> "Object", m |-> m]
Null == [t |-> "Null"]

\* A signed 64-bit value (an i64, or an int of a 64-bit target); zero has no sign
Signed(neg, mag) == [neg |-> neg /\ mag # Mag(0), mag |-> mag]

None == [some |-> FALSE]
Some(v) == [some |-> TRUE, v |-> v]

\* String's Ord on the member names that occur (byte order: upper case first).
SortedKeys ==
    << "QTime", "a", "b", "code", "docs", "error", "msg", "numFound",
       "response", "responseHeader", "start", "status" >>

RECURSIVE SrcError(_)
\* The first syntax error of a source tree, None when it is valid JSON.
SrcError(v) ==
    CASE v.t = "bad" -> Some(v.err)
      [] v.t = "num" ->
            \* parse_number: -(res as i64) must not come out positive
            IF v.neg /\ ~FitsNegI64(v.mag)
            THEN Some("SyntaxError(invalid number, 1, 1)")
            ELSE None
      [] v.t = "list" ->
            LET errs == SelectSeq([i \in 1..Len(v.elems) |-> SrcError(v.elems[i])],
                                  LAMBDA e : e.some)
            IN  IF errs = <<>> THEN None ELSE errs[1]
      [] v.t = "obj" ->
            LET errs == SelectSeq([i \in 1..Len(v.pairs) |-> SrcError(v.pairs[i][2])],
                                  LAMBDA e : e.some)
            IN  IF errs = <<>> THEN None ELSE errs[1]
      [] OTHER -> None

RECURSIVE Build(_)
\* The Json value the parser builds from a valid source tree.
Build(v) ==
    CASE v.t = "num" -> IF v.neg THEN I64(TRUE, v.mag) ELSE U64(v.mag)
      [] v.t = "flt" -> F64(v.neg, v.whole, v.frac)
      [] v.t = "str" -> String(v.s)
      [] v.t = "bool" -> Boolean(v.b)
      [] v.t = "null" -> Null
      [] v.t = "list" -> List([i \in 1..Len(v.elems) |-> Build(v.elems[i])])
      [] v.t = "obj" ->
            \* TreeMap::insert: one entry per name, the last member written wins
            LET names == {v.pairs[i][1] : i \in 1..Len(v.pairs)}
                last(k) == CHOOSE i \in 1..Len(v.pairs) :
                              /\ v.pairs[i][1] = k
                              /\ \A j \in 1..Len(v.pairs) : v.pairs[j][1] = k => j <= i
            IN  Object([k \in names |-> Build(v.pairs[last(k)][2])])

\* json::from_str
from_str(src) ==
    LET e == SrcError(src)
    IN  IF e.some THEN [ok |-> FALSE, err |-> e.v] ELSE [ok |-> TRUE, json |-> Build(src)]

\* TreeMap::find
TreeFind(m, key) == IF key \in DOMAIN m THEN Some(m[key]) ELSE None

\* Json::find: the member of an Object, None for every other Json
JsonFind(j, key) == IF j.t = "Object" THEN TreeFind(j.m, key) ELSE None

\* TreeMap::iter: the entries in key order
TreeIter(m) ==
    LET ks == SelectSeq(SortedKeys, LAMBDA k : k \in DOMAIN m)
    IN  [i \in 1..Len(ks) |-> <<ks[i], m[ks[i]]>>]

\* Json::as_i64, as a signed value [neg, mag]
as_i64(j) ==
    CASE j.t = "I64" -> Some(Signed(j.neg, j.mag))
      [] j.t = "U64" -> IF FitsI64(j.mag) THEN Some(Signed(FALSE, j.mag)) ELSE None
      [] OTHER -> None

\* Json::as_u64
as_u64(j) ==
    CASE j.t = "I64" -> IF j.neg THEN None ELSE Some(j.mag)
      [] j.t = "U64" -> Some(j.mag)
      [] OTHER -> None

\* `n as u32` of an i64: the low 32 bits of its two's complement
I64AsU32(n) ==
    LET c == n.mag[3]
        d == n.mag[4]
    IN  IF ~n.neg THEN <<c, d>>
        ELSE IF d = 0 THEN <<(Limb - c) % Limb, 0>>
        ELSE <<Limb - 1 - c, Limb - d>>

\* `n as u32` of a u64
U64AsU32(m) == <<m[3], m[4]>>

---------------------------------------------------------------------------
(* document::SolrField values *)

\* FieldValue with the catch-all arm taken for an empty string
FieldValueNullAsString(json_v) ==
    CASE json_v.t = "I64" -> [t |-> "SolrI64", neg |-> json_v.neg, mag |-> json_v.mag]
      [] json_v.t = "U64" -> [t |-> "SolrU64", mag |-> json_v.mag]
      [] json_v.t = "F64" ->
            [t |-> "SolrF64", neg |-> json_v.neg, whole |-> json_v.whole, frac |-> json_v.frac]
      [] json_v.t = "String" -> [t |-> "SolrString", s |-> json_v.s]
      [] json_v.t = "Boolean" -> [t |-> "SolrBoolean", b |-> json_v.b]
      [] OTHER -> [t |-> "SolrString", s |-> ""]

\* The match on the Json variant of one member of a doc (SolrNull for the rest)
FieldValue(json_v) ==
    CASE json_v.t = "I64" -> [t |-> "SolrI64", neg |-> json_v.neg, mag |-> json_v.mag]
      [] json_v.t = "U64" -> [t |-> "SolrU64", mag |-> json_v.mag]
      [] json_v.t = "F64" ->
            [t |-> "SolrF64", neg |-> json_v.neg, whole |-> json_v.whole, frac |-> json_v.frac]
      [] json_v.t = "String" -> [t |-> "SolrString", s |-> json_v.s]
      [] json_v.t = "Boolean" -> [t |-> "SolrBoolean", b |-> json_v.b]
      [] OTHER -> [t |-> "SolrNull"]

\* One SolrDocument from the TreeMap of a doc: a field pushed per entry of tm.iter()
DecodeDocument(tm) ==
    LET es == TreeIter(tm)
    IN  [fields |-> [i \in 1..Len(es) |-> [name |-> es[i][1], value |-> FieldValue(es[i][2])]]]

---------------------------------------------------------------------------
(* serialize::json::Decoder, as used by the two Decodable impls *)

Ok(v) == [ok |-> TRUE, v |-> v]
Err(e) == [ok |-> FALSE, err |-> e]
MissingFieldError(name) == [e |-> "MissingFieldError", name |-> name]
ExpectedError(what) == [e |-> "ExpectedError", expected |-> what]

\* from_str::<int> on the strings that occur
StrToInt(s) ==
    CASE s = "7" -> Some(Signed(FALSE, Mag(7)))
      [] s = "400" -> Some(Signed(FALSE, Mag(400)))
      [] OTHER -> None

\* Decodable for int: Decoder::read_int (num::cast of any number, from_str of a String)
read_int(j) ==
    CASE j.t = "I64" -> Ok(Signed(j.neg, j.mag))
      [] j.t = "U64" -> IF FitsI64(j.mag) THEN Ok(Signed(FALSE, j.mag)) ELSE Err(ExpectedError("Number"))
      [] j.t = "F64" -> Ok(Signed(j.neg, Mag(j.whole)))
      [] j.t = "String" ->
            IF StrToInt(j.s).some THEN Ok(StrToInt(j.s).v) ELSE Err(ExpectedError("Number"))
      [] OTHER -> Err(ExpectedError("Number"))

\* Decodable for String: Decoder::read_str
read_str(j) == IF j.t = "String" THEN Ok(j.s) ELSE Err(ExpectedError("String"))

\* Decodable::decode of a member, by the type of the struct field it is read into
decode(kind, j) == IF kind = "int" THEN read_int(j) ELSE read_str(j)

\* Decoder::read_struct_field with Decodable::decode: the member `name` of the
\* Object on the stack; a missing member is decoded from Null, and the error of
\* that is replaced by MissingFieldError
read_struct_field(j, name, kind) ==
    IF j.t # "Object" THEN Err(ExpectedError("Object"))
    ELSE IF name \in DOMAIN j.m THEN decode(kind, j.m[name])
    ELSE IF decode(kind, Null).ok THEN decode(kind, Null)
    ELSE Err(MissingFieldError(name))

\* Decoder::read_struct_field with a closure that reads a struct: the member
\* itself (the closure fails on the Null of a missing member)
read_struct_member(j, name) ==
    IF j.t # "Object" THEN Err(ExpectedError("Object"))
    ELSE IF name \in DOMAIN j.m THEN Ok(j.m[name])
    ELSE Err(MissingFieldError(name))

\* SolrErrorDecode with the status read from the member "status"
SolrErrorDecodeStatusMember(d) ==
    LET e == read_struct_member(d, "error")
        message == read_struct_field(e.v, "msg", "String")
        status == read_struct_field(e.v, "status", "int")
    IN  IF ~e.ok THEN e
        ELSE IF ~message.ok THEN message
        ELSE IF ~status.ok THEN status
        ELSE Ok([message |-> message.v, status |-> status.v, time |-> Signed(FALSE, Mag(0))])

\* Decodable for SolrError
SolrErrorDecode(d) ==
    LET e == read_struct_member(d, "error")
        message == read_struct_field(e.v, "msg", "String")
        status == read_struct_field(e.v, "code", "int")
    IN  IF ~e.ok THEN e
        ELSE IF ~message.ok THEN message
        ELSE IF ~status.ok THEN status
        ELSE Ok([message |-> message.v, status |-> status.v, time |-> Signed(FALSE, Mag(0))])

\* Decodable for SolrUpdateResponse
SolrUpdateResponseDecode(d) ==
    LET h == read_struct_member(d, "responseHeader")
        status == read_struct_field(h.v, "status", "int")
        time == read_struct_field(h.v, "QTime", "int")
    IN  IF ~h.ok THEN h
        ELSE IF ~status.ok THEN status
        ELSE IF ~time.ok THEN time
        ELSE Ok([status |-> status.v, time |-> time.v])

---------------------------------------------------------------------------
(* The response bodies the decoders are run on *)

\* No member, or the member `name` with one of `vals`
Opt(name, vals) == {<<>>} \cup {<< <<name, v>> >> : v \in vals}

QTimeVals ==
    { SrcNum(FALSE, Mag(1)), SrcNum(TRUE, Mag(1)), SrcNum(FALSE, MagBig),
      SrcNum(FALSE, Mag63), SrcStr("7") }

StatusVals ==
    { SrcNum(FALSE, Mag(0)), SrcNum(TRUE, Mag(0)), SrcNum(TRUE, Mag(1)), SrcNull }

NumFoundVals ==
    { SrcNum(FALSE, Mag(57)), SrcNum(FALSE, MagBig), SrcNum(TRUE, Mag(1)), SrcFlt(FALSE, 1, 5) }

StartVals == { SrcNum(FALSE, Mag(0)), SrcBool(TRUE), SrcObj(<<>>) }

DocA == SrcObj(<< <<"a", SrcNum(FALSE, Mag(1))>> >>)

\* docs of the envelope inputs
EnvelopeDocs ==
    { SrcStr("x"), SrcList(<<>>), SrcList(<<DocA>>), SrcList(<<SrcNum(FALSE, Mag(1)), DocA>>) }

HeaderChoices ==
    {<<>>, << <<"responseHeader", SrcStr("x")>> >>}
    \cup { << <<"responseHeader", SrcObj(s \o q)>> >> :
             s \in Opt("status", StatusVals), q \in Opt("QTime", QTimeVals) }

ResponseChoices ==
    {<<>>, << <<"response", SrcStr("x")>> >>}
    \cup { << <<"response", SrcObj(n \o s \o d)>> >> :
             n \in Opt("numFound", NumFoundVals), s \in Opt("start", StartVals),
             d \in Opt("docs", EnvelopeDocs) }

\* Every shape of the envelope: members missing, mistyped, out of range
EnvelopeInputs == { SrcObj(h \o r) : h \in HeaderChoices, r \in ResponseChoices }

\* The well-formed envelope around a docs list
Envelope(docs) ==
    SrcObj(<< <<"responseHeader",
                SrcObj(<< <<"status", SrcNum(FALSE, Mag(0))>>, <<"QTime", SrcNum(FALSE, Mag(1))>> >>)>>,
              <<"response",
                SrcObj(<< <<"numFound", SrcNum(FALSE, Mag(57))>>, <<"start", SrcNum(FALSE, Mag(0))>>,
                          <<"docs", docs>> >>)>> >>)

FieldNames == {"a", "b"}

\* The values of a doc member: the five scalar kinds, and the shapes that degrade
ScalarVals ==
    { SrcNum(FALSE, Mag(1)), SrcNum(TRUE, Mag(1)), SrcFlt(FALSE, 1, 5), SrcStr("s"), SrcBool(TRUE) }

OtherVals == { SrcNull, SrcObj(<< <<"a", SrcNum(FALSE, Mag(1))>> >>), SrcList(<<>>) }

FieldVals == ScalarVals \cup OtherVals

\* Source documents: up to MaxFields members, names may repeat, any order
SrcDocs == UNION { [1..k -> FieldNames \X FieldVals] : k \in 0..MaxFields }

\* The elements of the longer docs lists
ElemChoices ==
    { SrcNum(FALSE, Mag(1)),
      SrcObj(<<>>),
      DocA,
      SrcObj(<< <<"b", SrcStr("s")>>, <<"a", SrcNull>> >>),
      SrcObj(<< <<"a", SrcNum(FALSE, Mag(1))>>, <<"a", SrcStr("s")>> >>) }

DocsLists ==
    { SrcList(<<SrcObj(d)>>) : d \in SrcDocs }
    \cup { SrcList(l) : l \in UNION { [1..k -> ElemChoices] : k \in 0..MaxDocs } }

DocumentInputs == { Envelope(d) : d \in DocsLists }

MsgVals == { SrcStr("bad request"), SrcStr(""), SrcNum(FALSE, Mag(1)) }

CodeVals ==
    { SrcNum(FALSE, Mag(400)), SrcNum(TRUE, Mag(1)), SrcNum(FALSE, MagBig), SrcNum(FALSE, Mag63),
      SrcStr("400"), SrcStr("x"), SrcNull, SrcFlt(FALSE, 1, 5) }

\* Error envelopes
ErrorInputs ==
    { SrcObj(<< <<"error", SrcStr("x")>> >>) }
    \cup { SrcObj(<< <<"error", SrcObj(m \o c)>> >>) : m \in Opt("msg", MsgVals), c \in Opt("code", CodeVals) }

\* Text that is no JSON, and JSON that is no object
OtherInputs ==
    { SrcBad("SyntaxError(invalid syntax, 1, 1)"),
      SrcBad("SyntaxError(EOF While parsing value, 1, 1)"),
      SrcNum(TRUE, Mag63p),
      Envelope(SrcList(<< SrcObj(<< <<"a", SrcNum(TRUE, Mag63p)>> >>) >>)),
      SrcList(<<>>), SrcStr("x"), SrcNull, SrcNum(FALSE, Mag(1)) }

Inputs == EnvelopeInputs \cup DocumentInputs \cup ErrorInputs \cup OtherInputs

---------------------------------------------------------------------------
(* State *)

VARIABLES
    input,      \* the body handed to the decoder
    call,       \* the decoder that was called on it
    pc,         \* from_json_str: the lookup it is at
    response,   \* from_json_str: `response`, filled as the traversal goes
    error,      \* from_json_str: `error`, the message recorded last
    idx,        \* from_json_str: the position of docs.iter()
    result      \* what the call gave

vars == <<input, call, pc, response, error, idx, result>>

U32Zero == <<0, 0>>

\* SolrQueryResponse{status: 0, time: 0, total: 0, start: 0, items: Vec::new()}
EmptyResponse ==
    [status |-> U32Zero, time |-> U32Zero, total |-> Mag(0), start |-> Mag(0), items |-> <<>>]

MsgParse == "SolrQueryResponse JSON parsing error: "
MsgNotObject == "SolrQueryResponse JSON parsing error: query response is not a JSON object."
MsgNoHeader == "SolrQueryResponse JSON parsing error: responseHeader not found"
MsgNoQTime == "SolrQueryResponse JSON parsing error (responseHeader): QTime not found"
MsgNoStatus == "SolrQueryResponse JSON parsing error (responseHeader): status not found"
MsgNoResponse == "SolrQueryResponse JSON parsing error: response not found"
MsgNoNumFound == "SolrQueryResponse JSON parsing error (response): numFound not found"
MsgNoStart == "SolrQueryResponse JSON parsing error (response): start not found"
MsgNoDocs == "SolrQueryResponse JSON parsing error (response): docs not found"
MsgDocsNotList == "SolrQueryResponse JSON parsing error (response): docs is not a JSON list"
MsgDocNotObject == "SolrQueryResponse JSON parsing error (response => docs): doc is not an object"

\* ParseErrorMessage without the parser's error
ParseErrorMessageBare(e) == MsgParse

\* format!("SolrQueryResponse JSON parsing error: {}", e)
ParseErrorMessage(e) == MsgParse \o e

\* Record keeping the first message
RecordKeepFirst(old, msg) == IF old = "" THEN msg ELSE old

\* `error = msg`: the message recorded before is dropped
Record(old, msg) == msg

\* The end of from_json_str: Ok(response) when no message was recorded
Finish(resp, err) ==
    IF Len(err) = 0
    THEN [kind |-> "Ok", value |-> resp]
    ELSE [kind |-> "Err",
          value |-> [time |-> Signed(FALSE, Mag(0)), status |-> Signed(FALSE, Mag(0)), message |-> err]]

\* Option::unwrap on None
Panic == [kind |-> "panic"]

\* The parsed body and the parts of it the traversal reaches
Tree == from_str(input).json
Rh == TreeFind(Tree.m, "responseHeader").v
Rs == TreeFind(Tree.m, "response").v
Docs == JsonFind(Rs, "docs").v.elems

Init ==
    /\ input \in Inputs
    /\ call = "none"
    /\ pc = "start"
    /\ response = EmptyResponse
    /\ error = ""
    /\ idx = 0
    /\ result = [kind |-> "none"]

---------------------------------------------------------------------------
(* SolrQueryResponse::from_json_str *)

\* json::from_str(json_str) and the match on its result
Start ==
    /\ pc = "start"
    /\ call' = "from_json_str"
    /\ LET p == from_str(input)
       IN  IF ~p.ok
           THEN error' = Record(error, ParseErrorMessage(p.err)) /\ pc' = "return"
           ELSE IF p.json.t # "Object"
           THEN error' = Record(error, MsgNotObject) /\ pc' = "return"
           ELSE error' = error /\ pc' = "responseHeader"
    /\ UNCHANGED <<input, response, idx, result>>

FindResponseHeader ==
    /\ pc = "responseHeader"
    /\ IF TreeFind(Tree.m, "responseHeader").some
       THEN error' = error /\ pc' = "QTime"
       ELSE error' = Record(error, MsgNoHeader) /\ pc' = "response"
    /\ UNCHANGED <<input, call, response, idx, result>>

FindQTime ==
    /\ pc = "QTime"
    /\ LET time_json == JsonFind(Rh, "QTime")
       IN  IF ~time_json.some
           THEN /\ error' = Record(error, MsgNoQTime)
                /\ pc' = "status"
                /\ UNCHANGED <<response, result>>
           ELSE IF as_i64(time_json.v).some
           THEN /\ response' = [response EXCEPT !.time = I64AsU32(as_i64(time_json.v).v)]
                /\ pc' = "status"
                /\ UNCHANGED <<error, result>>
           ELSE /\ result' = Panic
                /\ pc' = "done"
                /\ UNCHANGED <<response, error>>
    /\ UNCHANGED <<input, call, idx>>

FindStatus ==
    /\ pc = "status"
    /\ LET status_json == JsonFind(Rh, "status")
       IN  IF ~status_json.some
           THEN /\ error' = Record(error, MsgNoStatus)
                /\ pc' = "response"
                /\ UNCHANGED <<response, result>>
           ELSE IF as_u64(status_json.v).some
           THEN /\ response' = [response EXCEPT !.status = U64AsU32(as_u64(status_json.v).v)]
                /\ pc' = "response"
                /\ UNCHANGED <<error, result>>
           ELSE /\ result' = Panic
                /\ pc' = "done"
                /\ UNCHANGED <<response, error>>
    /\ UNCHANGED <<input, call, idx>>

FindResponse ==
    /\ pc = "response"
    /\ IF TreeFind(Tree.m, "response").some
       THEN error' = error /\ pc' = "numFound"
       ELSE error' = Record(error, MsgNoResponse) /\ pc' = "return"
    /\ UNCHANGED <<input, call, response, idx, result>>

FindNumFound ==
    /\ pc = "numFound"
    /\ LET total_json == JsonFind(Rs, "numFound")
       IN  IF ~total_json.some
           THEN /\ error' = Record(error, MsgNoNumFound)
                /\ pc' = "start_"
                /\ UNCHANGED <<response, result>>
           ELSE IF as_u64(total_json.v).some
           THEN /\ response' = [response EXCEPT !.total = as_u64(total_json.v).v]
                /\ pc' = "start_"
                /\ UNCHANGED <<error, result>>
           ELSE /\ result' = Panic
                /\ pc' = "done"
                /\ UNCHANGED <<response, error>>
    /\ UNCHANGED <<input, call, idx>>

FindStart ==
    /\ pc = "start_"
    /\ LET start_json == JsonFind(Rs, "start")
       IN  IF ~start_json.some
           THEN /\ error' = Record(error, MsgNoStart)
                /\ pc' = "docs"
                /\ UNCHANGED <<response, result>>
           ELSE IF as_u64(start_json.v).some
           THEN /\ response' = [response EXCEPT !.start = as_u64(start_json.v).v]
                /\ pc' = "docs"
                /\ UNCHANGED <<error, result>>
           ELSE /\ result' = Panic
                /\ pc' = "done"
                /\ UNCHANGED <<response, error>>
    /\ UNCHANGED <<input, call, idx>>

FindDocs ==
    /\ pc = "docs"
    /\ LET docs_json == JsonFind(Rs, "docs")
       IN  IF ~docs_json.some
           THEN error' = Record(error, MsgNoDocs) /\ pc' = "return" /\ idx' = idx
           ELSE IF docs_json.v.t # "List"
           THEN error' = Record(error, MsgDocsNotList) /\ pc' = "return" /\ idx' = idx
           ELSE /\ error' = error
                /\ idx' = 1
                /\ pc' = IF Len(docs_json.v.elems) = 0 THEN "return" ELSE "doc"
    /\ UNCHANGED <<input, call, response, result>>

\* One turn of `for doc_json in docs.iter()`
DecodeDoc ==
    /\ pc = "doc"
    /\ LET doc_json == Docs[idx]
       IN  IF doc_json.t = "Object"
           THEN /\ response' = [response EXCEPT !.items = Append(@, DecodeDocument(doc_json.m))]
                /\ error' = error
           ELSE /\ error' = Record(error, MsgDocNotObject)
                /\ response' = response
    /\ idx' = idx + 1
    /\ pc' = IF idx = Len(Docs) THEN "return" ELSE "doc"
    /\ UNCHANGED <<input, call, result>>

Return ==
    /\ pc = "return"
    /\ result' = Finish(response, error)
    /\ pc' = "done"
    /\ UNCHANGED <<input, call, response, error, idx>>

---------------------------------------------------------------------------
(* The Decodable impls, run by json::Decoder on the parsed body *)

DecodeUpdateResponse ==
    /\ pc = "start"
    /\ from_str(input).ok
    /\ call' = "SolrUpdateResponse"
    /\ result' = LET r == SolrUpdateResponseDecode(Tree)
                 IN  IF r.ok THEN [kind |-> "Ok", value |-> r.v] ELSE [kind |-> "Err", value |-> r.err]
    /\ pc' = "done"
    /\ UNCHANGED <<input, response, error, idx>>

DecodeSolrError ==
    /\ pc = "start"
    /\ from_str(input).ok
    /\ call' = "SolrError"
    /\ result' = LET r == SolrErrorDecode(Tree)
                 IN  IF r.ok THEN [kind |-> "Ok", value |-> r.v] ELSE [kind |-> "Err", value |-> r.err]
    /\ pc' = "done"
    /\ UNCHANGED <<input, response, error, idx>>

Next ==
    \/ Start
    \/ FindResponseHeader
    \/ FindQTime
    \/ FindStatus
    \/ FindResponse
    \/ FindNumFound
    \/ FindStart
    \/ FindDocs
    \/ DecodeDoc
    \/ Return
    \/ DecodeUpdateResponse
    \/ DecodeSolrError

Spec == Init /\ [][Next]_vars

---------------------------------------------------------------------------
(* What the properties below read off the body, member by member as written *)

\* The member `name` of a source object (the last one written), None otherwise
SrcGet(v, name) ==
    IF v.t = "obj" /\ \E i \in 1..Len(v.pairs) : v.pairs[i][1] = name
    THEN LET i == CHOOSE i \in 1..Len(v.pairs) :
                      /\ v.pairs[i][1] = name
                      /\ \A j \in 1..Len(v.pairs) : v.pairs[j][1] = name => j <= i
         IN  Some(v.pairs[i][2])
    ELSE None

IsJson == ~SrcError(input).some
SrcHeader == SrcGet(input, "responseHeader")
SrcResponse == SrcGet(input, "response")
SrcQTime == SrcGet(SrcHeader.v, "QTime")
SrcStatus == SrcGet(SrcHeader.v, "status")
SrcNumFound == SrcGet(SrcResponse.v, "numFound")
SrcStartAt == SrcGet(SrcResponse.v, "start")
SrcDocsOf == SrcGet(SrcResponse.v, "docs")

IsInteger(o) == o.some /\ o.v.t = "num"
IsNonNegInteger(o) == IsInteger(o) /\ (~o.v.neg \/ o.v.mag = Mag(0))

\* response holds numFound, start and a docs list of objects
ResponseComplete ==
    /\ SrcResponse.some /\ SrcResponse.v.t = "obj"
    /\ SrcNumFound.some /\ SrcStartAt.some
    /\ SrcDocsOf.some /\ SrcDocsOf.v.t = "list"
    /\ \A i \in 1..Len(SrcDocsOf.v.elems) : SrcDocsOf.v.elems[i].t = "obj"

\* A well-formed query response, as C1 words it
WellFormedQuery ==
    /\ IsJson /\ input.t = "obj"
    /\ SrcHeader.some /\ SrcHeader.v.t = "obj"
    /\ IsInteger(SrcQTime) /\ IsInteger(SrcStatus)
    /\ ResponseComplete
    /\ IsNonNegInteger(SrcNumFound) /\ IsNonNegInteger(SrcStartAt)

\* A u32 holds the integer written as the source number n
U32Holds(u, n) == (~n.neg \/ n.mag = Mag(0)) /\ n.mag = <<0, 0, u[1], u[2]>>

QueryDone == call = "from_json_str" /\ pc = "done"

\* The names of the members of a source document, as a set
NamesOf(d) == {d.pairs[i][1] : i \in 1..Len(d.pairs)}

\* The field value a source literal stands for
ValueOf(v) ==
    CASE v.t = "num" /\ v.neg -> [t |-> "SolrI64", neg |-> v.mag # Mag(0), mag |-> v.mag]
      [] v.t = "num" /\ ~v.neg -> [t |-> "SolrU64", mag |-> v.mag]
      [] v.t = "flt" -> [t |-> "SolrF64", neg |-> v.neg, whole |-> v.whole, frac |-> v.frac]
      [] v.t = "str" -> [t |-> "SolrString", s |-> v.s]
      [] v.t = "bool" -> [t |-> "SolrBoolean", b |-> v.b]
      [] OTHER -> [t |-> "SolrNull"]

IsScalar(v) == v.t \in {"num", "flt", "str", "bool"}

---------------------------------------------------------------------------
(* C1, C2, C3 *)

\* C1: a well-formed query response (integer QTime and status, non-negative
\* integer numFound and start, docs a list of objects) decodes to Ok with
\* time = QTime, status = status, total = numFound, start = start and one
\* item per element of docs, in the order of docs.
C1_WellFormedDecodesToOk ==
    (QueryDone /\ WellFormedQuery) =>
        /\ result.kind = "Ok"
        /\ U32Holds(result.value.time, SrcQTime.v)
        /\ U32Holds(result.value.status, SrcStatus.v)
        /\ result.value.total = SrcNumFound.v.mag
        /\ result.value.start = SrcStartAt.v.mag
        /\ Len(result.value.items) = Len(SrcDocsOf.v.elems)
        /\ \A i \in 1..Len(SrcDocsOf.v.elems) :
              {result.value.items[i].fields[j].name :
                  j \in 1..Len(result.value.items[i].fields)} = NamesOf(SrcDocsOf.v.elems[i])

\* C2: from_json_str always ends by returning Ok or Err, never by a panic.
C2_AlwaysReturnsAResult == QueryDone => result.kind \in {"Ok", "Err"}

\* C3: a document of scalar (name, value) members in a well-formed response
\* decodes to the same pairs in the same order, repeated names included.
C3_DocumentRoundTrip ==
    (QueryDone /\ WellFormedQuery /\ result.kind = "Ok") =>
        \A i \in 1..Len(SrcDocsOf.v.elems) :
            LET d == SrcDocsOf.v.elems[i]
                f == result.value.items[i].fields
            IN  (\A j \in 1..Len(d.pairs) : IsScalar(d.pairs[j][2])) =>
                    /\ Len(f) = Len(d.pairs)
                    /\ \A j \in 1..Len(d.pairs) :
                          /\ f[j].name = d.pairs[j][1]
                          /\ f[j].value = ValueOf(d.pairs[j][2])

---------------------------------------------------------------------------
(* C4, C5, C6 *)

MentionsResponseHeader(msg) == msg \in {MsgNoHeader, MsgNoQTime, MsgNoStatus}

\* A JSON object without a responseHeader member
NoHeaderObject == IsJson /\ input.t = "obj" /\ ~SrcHeader.some

\* C4: a JSON object without responseHeader decodes to Err, never Ok, and the
\* message of that error references responseHeader, whatever else it holds.
C4_NoHeaderErrNamesHeader ==
    (QueryDone /\ NoHeaderObject) =>
        result.kind = "Err" /\ MentionsResponseHeader(result.value.message)

\* C5: text that is no JSON gives Err with status 0, time 0 and the parser's
\* error in the message; no key is looked up and nothing is decoded.
C5_ParseFailureIsErr ==
    (call = "from_json_str" /\ ~IsJson) =>
        /\ pc \in {"return", "done"}
        /\ response = EmptyResponse
        /\ pc = "done" =>
              /\ result.kind = "Err"
              /\ result.value.status = Signed(FALSE, Mag(0))
              /\ result.value.time = Signed(FALSE, Mag(0))
              /\ result.value.message = MsgParse \o SrcError(input).v

C5_Witness ==
    /\ QueryDone /\ input.t = "bad"
    /\ result.kind = "Err"
    /\ result.value.message = MsgParse \o input.err

\* The header decodes without loss: QTime fits an i64, status is not negative
HeaderInRange ==
    /\ (SrcQTime.v.neg \/ FitsI64(SrcQTime.v.mag))
    /\ (~SrcStatus.v.neg \/ SrcStatus.v.mag = Mag(0))

\* The members of a source document have distinct names
DistinctNames(d) ==
    \A i, j \in 1..Len(d.pairs) : d.pairs[i][1] = d.pairs[j][1] => i = j

---------------------------------------------------------------------------
(* C7, C8 *)

SrcErrorMember == SrcGet(input, "error")
SrcMsg == SrcGet(SrcErrorMember.v, "msg")
SrcCode == SrcGet(SrcErrorMember.v, "code")

\* An error envelope: error holds a string msg and an integer code
ErrorEnvelope ==
    /\ IsJson /\ input.t = "obj"
    /\ SrcErrorMember.some /\ SrcErrorMember.v.t = "obj"
    /\ SrcMsg.some /\ SrcMsg.v.t = "str"
    /\ IsInteger(SrcCode)

\* The source number n is in the range of int
InIntRange(n) == n.neg \/ FitsI64(n.mag)

SolrErrorDone == call = "SolrError" /\ pc = "done"

\* An int holds the integer written as the source number n
IntHolds(v, n) == v = Signed(n.neg, n.mag)

\* C7 as stated: an error envelope decodes to a SolrError with status = code,
\* message = msg and time = 0, for every msg and code.
C7_ErrorEnvelopeDecodes ==
    (SolrErrorDone /\ ErrorEnvelope) =>
        /\ result.kind = "Ok"
        /\ IntHolds(result.value.status, SrcCode.v)
        /\ result.value.message = SrcMsg.v.s
        /\ result.value.time = Signed(FALSE, Mag(0))

\* C7 as amended: the same for every msg and every code in the range of int;
\* a code outside it (2^63 and above) gives a decoder error instead.
C7_ErrorEnvelopeDecodesInRange ==
    (SolrErrorDone /\ ErrorEnvelope) =>
        IF InIntRange(SrcCode.v)
        THEN /\ result.kind = "Ok"
             /\ IntHolds(result.value.status, SrcCode.v)
             /\ result.value.message = SrcMsg.v.s
             /\ result.value.time = Signed(FALSE, Mag(0))
        ELSE result.kind = "Err"

C7_Witness ==
    /\ SolrErrorDone /\ ErrorEnvelope
    /\ SrcCode.v = SrcNum(FALSE, Mag(400)) /\ SrcMsg.v.s = "bad request"
    /\ result.kind = "Ok"
    /\ result.value.status = Signed(FALSE, Mag(400))
    /\ result.value.message = "bad request"

\* The names a decoder error carries
ErrorNames(e) == IF e.e = "MissingFieldError" THEN {e.name} ELSE {}

\* The members of responseHeader that are missing or no integer
BadHeaderMembers ==
    {k \in {"status", "QTime"} : ~IsInteger(SrcGet(SrcHeader.v, k))}

\* C8: an update response with integer status and QTime decodes to status and
\* time; with responseHeader, status or QTime missing or mistyped the decode
\* gives an error that names the field and the section holding it.
C8_UpdateDecodesOrNamesField ==
    (call = "SolrUpdateResponse" /\ pc = "done" /\ input.t = "obj") =>
        IF ~(SrcHeader.some /\ SrcHeader.v.t = "obj")
        THEN result.kind = "Err" /\ "responseHeader" \in ErrorNames(result.value)
        ELSE IF BadHeaderMembers = {}
        THEN /\ result.kind = "Ok"
             /\ IntHolds(result.value.status, SrcStatus.v)
             /\ IntHolds(result.value.time, SrcQTime.v)
        ELSE /\ result.kind = "Err"
             /\ \E k \in BadHeaderMembers : {"responseHeader", k} \subseteq ErrorNames(result.value)

---------------------------------------------------------------------------
(* C9, C10 *)

\* C9: from_json_str returns Err exactly when a message was recorded during
\* the traversal, and never returns the partly filled response as Ok.
C9_ErrIffRecorded ==
    QueryDone =>
        /\ result.kind = "Err" <=> error # ""
        /\ result.kind = "Ok" => error = ""

\* The lookups that fail on a parsed body, in the order of the traversal
HeaderFailures(j) ==
    IF ~TreeFind(j.m, "responseHeader").some THEN <<MsgNoHeader>>
    ELSE LET rh == j.m["responseHeader"]
         IN  (IF JsonFind(rh, "QTime").some THEN <<>> ELSE <<MsgNoQTime>>)
             \o (IF JsonFind(rh, "status").some THEN <<>> ELSE <<MsgNoStatus>>)

DocsFailures(rs) ==
    IF ~JsonFind(rs, "docs").some THEN <<MsgNoDocs>>
    ELSE LET docs == JsonFind(rs, "docs").v
         IN  IF docs.t # "List" THEN <<MsgDocsNotList>>
             ELSE LET bad == SelectSeq(docs.elems, LAMBDA e : e.t # "Object")
                  IN  [i \in 1..Len(bad) |-> MsgDocNotObject]

ResponseFailures(j) ==
    IF ~TreeFind(j.m, "response").some THEN <<MsgNoResponse>>
    ELSE LET rs == j.m["response"]
         IN  (IF JsonFind(rs, "numFound").some THEN <<>> ELSE <<MsgNoNumFound>>)
             \o (IF JsonFind(rs, "start").some THEN <<>> ELSE <<MsgNoStart>>)
             \o DocsFailures(rs)

FailedLookups ==
    IF ~IsJson THEN <<MsgParse \o SrcError(input).v>>
    ELSE IF input.t # "obj" THEN <<MsgNotObject>>
    ELSE HeaderFailures(Tree) \o ResponseFailures(Tree)

\* The positions a step of the traversal may lead to
Successors(p) ==
    CASE p = "start" -> {"responseHeader", "return"}
      [] p = "responseHeader" -> {"QTime", "response"}
      [] p = "QTime" -> {"status", "done"}
      [] p = "status" -> {"response", "done"}
      [] p = "response" -> {"numFound", "return"}
      [] p = "numFound" -> {"start_", "done"}
      [] p = "start_" -> {"docs", "done"}
      [] p = "docs" -> {"doc", "return"}
      [] p = "doc" -> {"doc", "return"}
      [] p = "return" -> {"done"}
      [] OTHER -> {}

\* Where the traversal goes on after a lookup at p has failed
AfterFailure(p) ==
    CASE p = "start" -> {"return"}
      [] p = "responseHeader" -> {"response"}
      [] p = "QTime" -> {"status"}
      [] p = "status" -> {"response"}
      [] p = "response" -> {"return"}
      [] p = "numFound" -> {"start_"}
      [] p = "start_" -> {"docs"}
      [] p = "docs" -> {"return"}
      [] p = "doc" -> {"doc", "return"}
      [] OTHER -> {}

\* C10: the keys are visited in the fixed order responseHeader (QTime, status),
\* response (numFound, start, docs and its elements in list order); a failed
\* lookup records its message and the traversal goes on with the next key; the
\* message of the Err returned is the one of the last lookup that failed.
C10_LastFailureInOrder ==
    /\ [][call' = "from_json_str" =>
            /\ pc' \in Successors(pc)
            /\ (pc = "doc" /\ pc' = "doc") => idx' = idx + 1
            /\ error' # error => pc' \in AfterFailure(pc) /\ result' = result]_vars
    /\ []((QueryDone /\ result.kind = "Err") =>
            /\ FailedLookups # <<>>
            /\ result.value.message = FailedLookups[Len(FailedLookups)])

C10_Witness ==
    /\ QueryDone /\ result.kind = "Err"
    /\ Len(FailedLookups) >= 3
    /\ FailedLookups[1] # FailedLookups[Len(FailedLookups)]
    /\ result.value.message = FailedLookups[Len(FailedLookups)]

====
